---- MODULE Spec2Model ----
(***************************************************************************)
(* Model of the Vishwarupa storage pipeline (src/src/main.rs): the peer    *)
(* node service (handle_connection), the upload and download pipelines,    *)
(* the shard health probe and the verify classification.                   *)
(*                                                                         *)
(* Byte strings are sequences of integers.  ASCII text keeps its byte      *)
(* values.  Arithmetic on shard bytes is done in the prime field of        *)
(* ByteMod elements, which stands for GF(2^8) of the Reed-Solomon crate.   *)
(* Random draws (keys, nonces, UUIDs) are taken from one counter, rng, so  *)
(* that every draw is fresh: collisions of 96-bit and 122-bit random       *)
(* values are not modelled.                                                *)
(***************************************************************************)
EXTENDS Integers, Sequences, FiniteSets, TLC

(***************************************************************************)
(* Bounds of the model.  CHUNK is 4 MiB and a UUID has 36 characters in    *)
(* the source; both are scaled down here.                                  *)
(***************************************************************************)
CHUNK == 2
UUID_LEN == 4
MaxFileLen == 4
MaxPeers == 2
MaxFaults == 1
MaxConns == 3
MaxTasks == 3
MaxPuts == 3

(***************************************************************************)
(* Program constants.                                                      *)
(***************************************************************************)
DATA_SHARDS == 6
PARITY_SHARDS == 4
TAG_LEN == 16
NONCE_LEN == 12
KEY_LEN == 32

TOTAL_SHARDS == DATA_SHARDS + PARITY_SHARDS
ByteMod == 256 - 5

VARIABLES
    store,      \* store[p]: the shard directory of peer p, file name -> bytes
    up,         \* up[p]: peer p accepts TCP connections
    rng,        \* number of random values drawn so far
    conn,       \* the last raw connection a peer handled
    acked,      \* acked[p]: shard id -> payload, for every STORE p answered with an id
    nconn,      \* raw connections handled so far
    tasks,      \* the handler tasks listen has spawned, in accept order
    file,       \* the bytes of the file to upload
    devices,    \* what discover_devices returns: a sequence of peers
    pc,         \* where the client is
    u,          \* the locals of upload
    db,         \* the local manifest store: file id -> encrypted manifest
    dbop,       \* the last Database call made on its own, and what it returned
    coord,      \* the manifests the coordinator holds
    d,          \* the locals of download
    output,     \* the output path of download
    v,          \* the locals of verify
    faults,     \* peer outages and altered shard files so far
    tlog        \* the shard files altered so far

peerVars == <<conn, acked, nconn, tasks>>
clientVars == <<file, devices, pc, u, db, dbop, coord, d, output, v, faults, tlog>>
vars == <<store, up, rng, conn, acked, nconn, tasks,
          file, devices, pc, u, db, dbop, coord, d, output, v, faults, tlog>>

(***************************************************************************)
(* Byte strings.                                                           *)
(***************************************************************************)
ERR == <<69, 82, 82>>
GET_ == <<71, 69, 84>>
PING_ == <<80, 73, 78, 71>>
PONG_OK == <<80, 79, 78, 71, 58, 79, 75, 10>>
PONG_MISSING == <<80, 79, 78, 71, 58, 77, 73, 83, 83, 73, 78, 71, 10>>
DOT_META == <<46, 109, 101, 116, 97>>
PARENT_DB == <<46, 46, 47, 100, 98>>
COLON == 58
NEWLINE == 10

Zeros(n) == [i \in 1..n |-> 0]

Min(a, b) == IF a < b THEN a ELSE b

IsPrefix(p, s) == Len(p) <= Len(s) /\ SubSeq(s, 1, Len(p)) = p

RECURSIVE SumSeq(_)
SumSeq(s) == IF s = <<>> THEN 0 ELSE Head(s) + SumSeq(Tail(s))

\* u32::to_be_bytes / u32::from_be_bytes
ToBe32(n) == <<(n \div 16777216) % 256, (n \div 65536) % 256, (n \div 256) % 256, n % 256>>
FromBe32(h) == ((h[1] * 256 + h[2]) * 256 + h[3]) * 256 + h[4]

\* char::is_whitespace on the ASCII range, as str::trim uses it
IsSpace(b) == b \in {9, 10, 11, 12, 13, 32}

RECURSIVE TrimStart(_)
TrimStart(s) == IF s # <<>> /\ IsSpace(Head(s)) THEN TrimStart(Tail(s)) ELSE s

RECURSIVE TrimEnd(_)
TrimEnd(s) ==
    IF s # <<>> /\ IsSpace(s[Len(s)]) THEN TrimEnd(SubSeq(s, 1, Len(s) - 1)) ELSE s

Trim(s) == TrimEnd(TrimStart(s))

\* Uuid::new_v4().to_string(): the text of the n-th value drawn
Uuid(n) ==
    [i \in 1..UUID_LEN |->
        IF i = UUID_LEN THEN 48 + (n % 10)
        ELSE IF i = UUID_LEN - 1 THEN 48 + ((n \div 10) % 10)
        ELSE IF i = UUID_LEN - 2 THEN 45
        ELSE 97 + (i % 6)]

(***************************************************************************)
(* ShardMetadata and its JSON text.  The JSON object is scaled to one byte *)
(* per field between the braces.                                           *)
(***************************************************************************)
MetaJson(m) ==
    <<123>> \o m.file_id \o <<m.chunk_index, m.shard_index, m.nonce.seed, 125>>

\* serde_json::from_slice::<ShardMetadata>(..).is_ok()
ParseMetaOk(bytes) ==
    Len(bytes) = UUID_LEN + 5 /\ bytes[1] = 123 /\ bytes[Len(bytes)] = 125

(***************************************************************************)
(* The shard directory of a peer: a function from file names (relative to  *)
(* the directory) to contents.  The directory itself and its sibling db    *)
(* directory exist from Database::new on.                                  *)
(***************************************************************************)
IsDirectory(name) == name \in {<<>>, <<46>>, <<46, 46>>, PARENT_DB}

\* std::path::Path::exists
PathExists(fs, name) == name \in DOMAIN fs \/ IsDirectory(name)

\* fs::read: [ok, data]
FsRead(fs, name) ==
    IF name \in DOMAIN fs THEN [ok |-> TRUE, data |-> fs[name]]
    ELSE [ok |-> FALSE, data |-> <<>>]

\* fs::write
FsWrite(fs, name, data) == (name :> data) @@ fs

\* line 518 with the same identifier drawn every time
NewShardIdFixed(n) == Uuid(0)

\* line 518: Uuid::new_v4().to_string(), n the number it is drawn with
NewShardId(n) == Uuid(n)

\* lines 518-523, with the sidecar and the shard written to each other's path
StoreShardFilesSwapped(fs, shard_id, meta_bytes, shard_data) ==
    FsWrite(FsWrite(fs, shard_id \o DOT_META, shard_data), shard_id, meta_bytes)

StoreShardFiles(fs, shard_id, meta_bytes, shard_data) ==
    FsWrite(FsWrite(fs, shard_id \o DOT_META, meta_bytes), shard_id, shard_data)

(***************************************************************************)
(* handle_connection.  frame is everything the client sends before it      *)
(* shuts down its write side (or closes); n is the number the handler's    *)
(* UUID is drawn with.  The result is the directory afterwards, whether a  *)
(* response was written, the response, and whether a UUID was drawn.       *)
(***************************************************************************)
NoResponse(fs) == [fs |-> fs, responded |-> FALSE, resp |-> <<>>, minted |-> FALSE]

Respond(fs, bytes) == [fs |-> fs, responded |-> TRUE, resp |-> bytes, minted |-> FALSE]

\* the read loop of lines 480-485 over the bytes that follow the header
RECURSIVE ReadShardId(_, _)
ReadShardId(rest, acc) ==
    IF rest = <<>> THEN acc
    ELSE IF Head(rest) = NEWLINE \/ Head(rest) = 0 THEN acc
    ELSE ReadShardId(Tail(rest), Append(acc, Head(rest)))

\* lines 461-487: the name under storage_path that a GET or PING frame is
\* looked up by; PING skips one byte after the header, GET keeps header[3]
\* unless it is ':'
shard_path(frame) ==
    LET header == SubSeq(frame, 1, 4)
        is_ping == header = PING_
        after == SubSeq(frame, 5, Len(frame))
        rest == IF is_ping /\ after # <<>> THEN Tail(after) ELSE after
        first == IF ~is_ping /\ header[4] # COLON THEN <<header[4]>> ELSE <<>>
        shard_id == ReadShardId(rest, first)
    IN  Trim(shard_id)

\* lines 487-505 with the file looked up removed once it was answered for
HandleLookupConsuming(fs, frame) ==
    LET header == SubSeq(frame, 1, 4)
        is_ping == header = PING_
        after == SubSeq(frame, 5, Len(frame))
        left == [name \in DOMAIN fs \ {shard_path(frame)} |-> fs[name]]
    IN  IF is_ping /\ after = <<>> THEN NoResponse(fs)
        ELSE IF is_ping
             THEN IF PathExists(fs, shard_path(frame))
                  THEN Respond(left, PONG_OK)
                  ELSE Respond(fs, PONG_MISSING)
             ELSE LET r == FsRead(fs, shard_path(frame))
                  IN  IF r.ok THEN Respond(left, r.data) ELSE Respond(fs, ERR)

HandleLookup(fs, frame) ==
    LET header == SubSeq(frame, 1, 4)
        is_ping == header = PING_
        after == SubSeq(frame, 5, Len(frame))
    IN  IF is_ping /\ after = <<>> THEN NoResponse(fs)
        ELSE IF is_ping
             THEN IF PathExists(fs, shard_path(frame))
                  THEN Respond(fs, PONG_OK)
                  ELSE Respond(fs, PONG_MISSING)
             ELSE LET r == FsRead(fs, shard_path(frame))
                  IN  IF r.ok THEN Respond(fs, r.data) ELSE Respond(fs, ERR)

HandleStore(fs, frame, n) ==
    LET header == SubSeq(frame, 1, 4)
        meta_len == FromBe32(header)
    IN  IF Len(frame) < 4 + meta_len THEN NoResponse(fs)
        ELSE
            LET meta_bytes == SubSeq(frame, 5, 4 + meta_len)
                shard_data == SubSeq(frame, 5 + meta_len, Len(frame))
            IN  IF ParseMetaOk(meta_bytes)
                THEN [fs |-> StoreShardFiles(fs, NewShardId(n), meta_bytes, shard_data),
                      responded |-> TRUE, resp |-> NewShardId(n), minted |-> TRUE]
                ELSE Respond(fs, ERR)

\* line 461 and line 462: the branch taken on the 4 header bytes
Dispatch(header) ==
    IF SubSeq(header, 1, 3) = GET_ \/ header = PING_
    THEN IF header = PING_ THEN "PING" ELSE "GET"
    ELSE "STORE"

HandleConnection(fs, frame, n) ==
    IF Len(frame) < 4 THEN NoResponse(fs)
    ELSE IF Dispatch(SubSeq(frame, 1, 4)) \in {"GET", "PING"}
         THEN HandleLookup(fs, frame)
         ELSE HandleStore(fs, frame, n)

(***************************************************************************)
(* Frames as the clients of this repository build them.                    *)
(***************************************************************************)
\* send_shard, lines 690-696
StoreFrame(meta_json, shard) == ToBe32(Len(meta_json)) \o meta_json \o shard

\* fetch_shard, line 847
GetFrame(shard_id) == GET_ \o <<COLON>> \o shard_id \o <<NEWLINE>>

\* verify_shard_health, line 870
PingFrame(shard_id) == PING_ \o <<COLON>> \o shard_id \o <<NEWLINE>>

(***************************************************************************)
(* Codec: lz4::block::compress(.., None, false) on inputs too short to     *)
(* hold a match emits one literal run: a token byte with the run length in *)
(* its high nibble, then the literals.  decompress accepts such a block    *)
(* when the run length matches and the output stays below the limit.       *)
(***************************************************************************)
Lz4Compress(data) == <<16 * Len(data)>> \o data

\* [ok, data]
Lz4Decompress(block, limit) ==
    IF /\ block # <<>>
       /\ Head(block) % 16 = 0
       /\ Head(block) \div 16 = Len(block) - 1
       /\ Len(block) - 1 <= limit
    THEN [ok |-> TRUE, data |-> Tail(block)]
    ELSE [ok |-> FALSE, data |-> <<>>]

DECOMPRESS_LIMIT == 10 * 1024 * 1024

(***************************************************************************)
(* Crypto: ChaCha20-Poly1305.  A key or a nonce is the byte vector drawn   *)
(* with number seed, kept as its length and that number.  The ciphertext   *)
(* is the plaintext masked by a key stream of (key, nonce), followed by a  *)
(* TAG_LEN-byte tag over the masked bytes; decryption recomputes the tag   *)
(* and fails when it differs.                                              *)
(***************************************************************************)
RandomBytes(len, n) == [len |-> len, seed |-> n]

KeyStream(key, nonce, i) == (7 * key.seed + 13 * nonce.seed + 3 * i + 1) % ByteMod

RECURSIVE WeightedSum(_, _, _)
WeightedSum(body, i, j) ==
    IF i > Len(body) THEN 0
    ELSE ((i + j) * (body[i] + 1) + WeightedSum(body, i + 1, j)) % ByteMod

Tag(key, nonce, body) ==
    [j \in 1..TAG_LEN |->
        (5 * key.seed + 11 * nonce.seed + 17 * j + Len(body)
            + WeightedSum(body, 1, j)) % ByteMod]

AeadEncrypt(key, nonce, data) ==
    LET body == [i \in 1..Len(data) |-> (data[i] + KeyStream(key, nonce, i)) % ByteMod]
    IN  body \o Tag(key, nonce, body)

\* AeadDecrypt comparing no tag
AeadDecryptNoTag(key, nonce, data) ==
    IF Len(data) < TAG_LEN THEN [ok |-> FALSE, data |-> <<>>]
    ELSE [ok |-> TRUE,
          data |-> [i \in 1..(Len(data) - TAG_LEN) |->
              (data[i] + ByteMod - KeyStream(key, nonce, i)) % ByteMod]]

\* [ok, data]
AeadDecrypt(key, nonce, data) ==
    IF Len(data) < TAG_LEN THEN [ok |-> FALSE, data |-> <<>>]
    ELSE
        LET n == Len(data) - TAG_LEN
            body == SubSeq(data, 1, n)
        IN  IF SubSeq(data, n + 1, Len(data)) = Tag(key, nonce, body)
            THEN [ok |-> TRUE,
                  data |-> [i \in 1..n |->
                      (body[i] + ByteMod - KeyStream(key, nonce, i)) % ByteMod]]
            ELSE [ok |-> FALSE, data |-> <<>>]

\* encrypt_chunk: n is the number the nonce is drawn with
encrypt_chunk(data, key, n) ==
    LET nonce == RandomBytes(NONCE_LEN, n)
    IN  [encrypted |-> AeadEncrypt(key, nonce, data), nonce |-> nonce]

\* decrypt_chunk with the tag left unverified
decrypt_chunk_unchecked(data, key, nonce_bytes) ==
    IF key.len # KEY_LEN \/ nonce_bytes.len # NONCE_LEN
    THEN [ok |-> FALSE, data |-> <<>>]
    ELSE AeadDecryptNoTag(key, nonce_bytes, data)

decrypt_chunk(data, key, nonce_bytes) ==
    IF key.len # KEY_LEN \/ nonce_bytes.len # NONCE_LEN
    THEN [ok |-> FALSE, data |-> <<>>]
    ELSE AeadDecrypt(key, nonce_bytes, data)

(***************************************************************************)
(* Erasure coder: ReedSolomon::new(DATA_SHARDS, PARITY_SHARDS).  Byte i of *)
(* the shards of a chunk are the values, at the points 0..9, of the        *)
(* polynomial of degree below DATA_SHARDS through the data shards' bytes,  *)
(* so that any DATA_SHARDS shards determine the others.                    *)
(***************************************************************************)
Inv[a \in 1..(ByteMod - 1)] == CHOOSE b \in 1..(ByteMod - 1) : (a * b) % ByteMod = 1

ModQ(a) == ((a % ByteMod) + ByteMod) % ByteMod

RECURSIVE ProdOver(_, _, _)
ProdOver(S, k, x) ==
    IF S = {} THEN 1
    ELSE LET m == CHOOSE e \in S : TRUE
         IN  (ModQ(x - m) * Inv[ModQ(k - m)] * ProdOver(S \ {m}, k, x)) % ByteMod

\* weight of the shard at point k, among the points S, in the value at x
Lagrange(S, k, x) == ProdOver(S \ {k}, k, x)

DataPoints == 0..(DATA_SHARDS - 1)
AllPoints == 0..(TOTAL_SHARDS - 1)

ParityCoef == [x \in AllPoints |-> [k \in DataPoints |-> Lagrange(DataPoints, k, x)]]

RECURSIVE Combine(_, _, _, _)
Combine(coef, ks, vals, i) ==
    IF ks = {} THEN 0
    ELSE LET k == CHOOSE e \in ks : TRUE
         IN  (coef[k] * vals[k + 1][i] + Combine(coef, ks \ {k}, vals, i)) % ByteMod

\* rs.encode: fills the parity shards; shards[s + 1] is the shard with index s
RsEncode(shards) ==
    [s \in 1..TOTAL_SHARDS |->
        IF s <= DATA_SHARDS THEN shards[s]
        ELSE [i \in 1..Len(shards[1]) |-> Combine(ParityCoef[s - 1], DataPoints, shards, i)]]

None == [some |-> FALSE, v |-> <<>>]
Some(bytes) == [some |-> TRUE, v |-> bytes]

Present(slots) == {s \in 1..Len(slots) : slots[s].some}

\* the first DATA_SHARDS present points, from which the missing shards are computed
RECURSIVE FirstPoints(_, _, _)
FirstPoints(slots, s, n) ==
    IF n = 0 \/ s > Len(slots) THEN {}
    ELSE IF slots[s].some THEN {s - 1} \cup FirstPoints(slots, s + 1, n - 1)
    ELSE FirstPoints(slots, s + 1, n)

\* rs.reconstruct: [ok, err, slots]
RsReconstruct(slots) ==
    LET present == Present(slots)
        lens == {Len(slots[s].v) : s \in present}
    IN  IF Len(slots) # TOTAL_SHARDS
        THEN [ok |-> FALSE, err |-> "TooFewShards", slots |-> slots]
        ELSE IF 0 \in lens
        THEN [ok |-> FALSE, err |-> "EmptyShard", slots |-> slots]
        ELSE IF Cardinality(lens) > 1
        THEN [ok |-> FALSE, err |-> "IncorrectShardSize", slots |-> slots]
        ELSE IF Cardinality(present) = TOTAL_SHARDS
        THEN [ok |-> TRUE, err |-> "", slots |-> slots]
        ELSE IF Cardinality(present) < DATA_SHARDS
        THEN [ok |-> FALSE, err |-> "TooFewShardsPresent", slots |-> slots]
        ELSE
            LET pts == FirstPoints(slots, 1, DATA_SHARDS)
                size == CHOOSE l \in lens : TRUE
                vals == [s \in 1..TOTAL_SHARDS |-> slots[s].v]
            IN  [ok |-> TRUE, err |-> "",
                 slots |-> [s \in 1..TOTAL_SHARDS |->
                     IF slots[s].some THEN slots[s]
                     ELSE Some([i \in 1..size |->
                         Combine([k \in pts |-> Lagrange(pts, k, s - 1)], pts, vals, i)])]]

(***************************************************************************)
(* Splitting a chunk's ciphertext into shards (upload, lines 577-597).     *)
(***************************************************************************)
\* line 577 with the division rounding down
ShardSizeFloor(encrypted) == Len(encrypted) \div DATA_SHARDS

\* line 577
ShardSize(encrypted) == (Len(encrypted) + DATA_SHARDS - 1) \div DATA_SHARDS

\* shard.resize(shard_size, 0)
Resize(bytes, n) == [i \in 1..n |-> IF i <= Len(bytes) THEN bytes[i] ELSE 0]

DataShard(encrypted, i) ==
    LET shard_size == ShardSize(encrypted)
        start == i * shard_size
        end == Min((i + 1) * shard_size, Len(encrypted))
    IN  Resize(IF start < Len(encrypted) THEN SubSeq(encrypted, start + 1, end) ELSE <<>>,
               shard_size)

SplitShards(encrypted) ==
    [s \in 1..TOTAL_SHARDS |->
        IF s <= DATA_SHARDS THEN DataShard(encrypted, s - 1)
        ELSE Zeros(ShardSize(encrypted))]

EncodeChunk(encrypted) == RsEncode(SplitShards(encrypted))

\* file.chunks(CHUNK): the chunk with index c
FileChunk(bytes, c) == SubSeq(bytes, c * CHUNK + 1, Min((c + 1) * CHUNK, Len(bytes)))

\* line 562 with the division rounding down
ChunkCountFloor(file_size) == file_size \div CHUNK

\* line 562
ChunkCount(file_size) == (file_size + CHUNK - 1) \div CHUNK

\* file.chunks(CHUNK).count(): the iterations of the loop of line 564
NumChunks(bytes) == IF Len(bytes) = 0 THEN 0 ELSE ((Len(bytes) - 1) \div CHUNK) + 1

(***************************************************************************)
(* The manifest store (Database).  A blob is the manifest sealed under the *)
(* master key with a fresh nonce.                                          *)
(***************************************************************************)
Peers == 1..MaxPeers

encrypt_manifest(manifest, n) ==
    [nonce |-> RandomBytes(NONCE_LEN, n), sealed |-> manifest, intact |-> TRUE]

\* [ok, manifest]
decrypt_manifest(blob) ==
    IF blob.intact THEN [ok |-> TRUE, manifest |-> blob.sealed]
    ELSE [ok |-> FALSE, manifest |-> <<>>]

store_manifest(data, manifest, n) ==
    (manifest.file_id :> encrypt_manifest(manifest, n)) @@ data

get_manifest(data, file_id) ==
    IF file_id \in DOMAIN data THEN decrypt_manifest(data[file_id])
    ELSE [ok |-> FALSE, manifest |-> <<>>]

\* byte-wise lexicographic order, the order of sled's keys
RECURSIVE LexLess(_, _)
LexLess(a, b) ==
    IF b = <<>> THEN FALSE
    ELSE IF a = <<>> THEN TRUE
    ELSE IF Head(a) # Head(b) THEN Head(a) < Head(b)
    ELSE LexLess(Tail(a), Tail(b))

\* the keys of S from the greatest down
RECURSIVE Descending(_)
Descending(S) ==
    IF S = {} THEN <<>>
    ELSE LET m == CHOOSE x \in S : \A y \in S \ {x} : LexLess(y, x)
         IN  <<m>> \o Descending(S \ {m})

\* the keys of S in the order scan_prefix yields them
RECURSIVE Ascending(_)
Ascending(S) ==
    IF S = {} THEN <<>>
    ELSE LET m == CHOOSE x \in S : \A y \in S \ {x} : LexLess(x, y)
         IN  <<m>> \o Ascending(S \ {m})

\* list_files with the keys taken from the greatest down
list_files_descending(data) == Descending(DOMAIN data)

\* lines 158-170: the file id of every key under the prefix manifest:
list_files(data) == Ascending(DOMAIN data)

\* no operation on the manifest store yet; puts: file id -> manifest last stored
NoDbOp == [op |-> "none", file_id |-> <<>>, ok |-> FALSE, result |-> <<>>, puts |-> <<>>]

(***************************************************************************)
(* The client's requests to a peer.  peer_up: the TCP connect succeeds.    *)
(***************************************************************************)
\* lines 718-731: what send_shard makes of the handler's outcome r
ReadStoreResponse(r) ==
    LET response == SubSeq(r.resp, 1, Min(Len(r.resp), UUID_LEN))
    IN  [ok |-> response # ERR, shard_id |-> response, fs |-> r.fs, minted |-> r.minted]

\* send_shard: [ok, shard_id, fs, minted]
send_shard(peer_up, fs, shard, metadata, n) ==
    IF ~peer_up THEN [ok |-> FALSE, shard_id |-> <<>>, fs |-> fs, minted |-> FALSE]
    ELSE ReadStoreResponse(HandleConnection(fs, StoreFrame(MetaJson(metadata), shard), n))

\* fetch_shard: [ok, data]
fetch_shard(peer_up, fs, shard_id) ==
    IF ~peer_up THEN [ok |-> FALSE, data |-> <<>>]
    ELSE
        LET r == HandleConnection(fs, GetFrame(shard_id), 0)
        IN  IF r.resp = ERR THEN [ok |-> FALSE, data |-> <<>>]
            ELSE [ok |-> TRUE, data |-> r.resp]

\* lines 870-871: the peer's handling of the frame verify_shard_health writes
ProbeOutcome(peer_up, fs, shard_id) ==
    IF ~peer_up THEN NoResponse(fs) ELSE HandleConnection(fs, PingFrame(shard_id), 0)

\* verify_shard_health: "true", "false" or "err"; resp is what the peer answered
ProbeResponse(peer_up, fs, shard_id) == ProbeOutcome(peer_up, fs, shard_id).resp

verify_shard_health(peer_up, fs, shard_id) ==
    IF ~peer_up THEN "err"
    ELSE
        LET r == ProbeResponse(peer_up, fs, shard_id)
            resp == SubSeq(r, 1, Min(Len(r), 10))
        IN  IF Len(resp) > 0 /\ (IsPrefix(<<79, 75>>, resp) \/ IsPrefix(<<80, 79, 78, 71>>, resp))
            THEN "true" ELSE "false"

(***************************************************************************)
(* upload                                                                  *)
(***************************************************************************)
\* issued: the (chunk, shard) of every send_shard call, in call order;
\* returned: the same of every send_shard call that came back, Ok or Err
NoUpload == [file_id |-> <<>>, key |-> RandomBytes(0, 0), chunk_idx |-> 0,
             shard_idx |-> 0, shards |-> <<>>, nonce |-> RandomBytes(0, 0),
             shard_map |-> <<>>, chunks_info |-> <<>>, result |-> "none",
             issued |-> <<>>, returned |-> <<>>]

\* source: where the manifest came from; gets: the GET requests issued, in order
NoDownload == [manifest |-> <<>>, chunk_idx |-> 0, loc_idx |-> 1, shards |-> <<>>,
               count |-> 0, fetched |-> {}, file_data |-> <<>>, result |-> "none",
               source |-> "none", gets |-> <<>>]

\* sent: the frames verify has written to peers
NoVerify == [manifest |-> <<>>, loc_idx |-> 1, healthy |-> 0, missing |-> 0,
             pong_ok |-> {}, healthy_idx |-> {}, status |-> "none", sent |-> {}]

\* line 551 with the test left out
NoDevicesUnchecked(devs) == FALSE

\* line 551: devices.is_empty()
NoDevices(devs) == devs = <<>>

\* lines 537-562
UploadStart ==
    /\ pc = "idle"
    /\ rng' = rng + 2
    /\ u' = [NoUpload EXCEPT !.key = RandomBytes(KEY_LEN, rng),
                             !.file_id = Uuid(rng + 1),
                             !.result = IF NoDevices(devices) THEN "err_no_devices"
                                        ELSE "none"]
    /\ pc' = IF NoDevices(devices) THEN "done"
             ELSE IF NumChunks(file) = 0 THEN "up_finish" ELSE "up_chunk"
    /\ UNCHANGED <<store, up, peerVars, dbop, file, devices, db, coord, d, output, v, faults, tlog>>

\* lines 564-597: compress, encrypt, record the ChunkInfo, split and encode
UploadChunk ==
    /\ pc = "up_chunk"
    /\ LET compressed == Lz4Compress(FileChunk(file, u.chunk_idx))
           e == encrypt_chunk(compressed, u.key, rng)
       IN  u' = [u EXCEPT !.nonce = e.nonce,
                          !.chunks_info = Append(@, [chunk_index |-> u.chunk_idx,
                                                     encrypted_size |-> Len(e.encrypted),
                                                     nonce |-> e.nonce]),
                          !.shards = EncodeChunk(e.encrypted),
                          !.shard_idx = 0]
    /\ rng' = rng + 1
    /\ pc' = "up_send"
    /\ UNCHANGED <<store, up, peerVars, dbop, file, devices, db, coord, d, output, v, faults, tlog>>

\* line 600 with every shard sent to the first device
TargetFirst == devices[1]

\* line 600
Target == devices[(u.shard_idx % Len(devices)) + 1]

\* line 611: send_shard is called for the shard the loop is at
Issue(up_) == [up_ EXCEPT !.issued = Append(@, <<up_.chunk_idx, up_.shard_idx>>)]

\* line 564 with the loop left after its first iteration
MoreChunksNever(chunk_idx) == FALSE

\* line 564: file.chunks(CHUNK) has a chunk after chunk_idx
MoreChunks(chunk_idx) == chunk_idx + 1 < NumChunks(file)

\* lines 610-626: the outcome r of send_shard to target goes into the shard map;
\* from is the upload's state when send_shard returns
RecordShard(from, target, r) ==
       LET last == u.shard_idx + 1 = TOTAL_SHARDS
       IN  /\ store' = [store EXCEPT ![target] = r.fs]
           /\ rng' = IF r.minted THEN rng + 1 ELSE rng
           /\ u' = [from EXCEPT
                      !.returned = Append(@, <<u.chunk_idx, u.shard_idx>>),
                      !.shard_map = IF r.ok
                                    THEN Append(@, [chunk_index |-> u.chunk_idx,
                                                    shard_index |-> u.shard_idx,
                                                    device_id |-> target,
                                                    device_address |-> target,
                                                    shard_id |-> r.shard_id,
                                                    nonce |-> u.nonce])
                                    ELSE @,
                      !.shard_idx = IF last THEN 0 ELSE @ + 1,
                      !.chunk_idx = IF last THEN @ + 1 ELSE @]
           /\ pc' = IF ~last THEN "up_send"
                    ELSE IF MoreChunks(u.chunk_idx) THEN "up_chunk"
                    ELSE "up_finish"

\* lines 599-626: one iteration of the loop over the shards of the chunk
SendShard ==
    /\ pc = "up_send"
    /\ LET metadata == [file_id |-> u.file_id, chunk_index |-> u.chunk_idx,
                        shard_index |-> u.shard_idx, nonce |-> u.nonce]
       IN  RecordShard(Issue(u), Target, send_shard(up[Target], store[Target],
                                                    u.shards[u.shard_idx + 1], metadata, rng))
    /\ UNCHANGED <<up, peerVars, dbop, file, devices, db, coord, d, output, v, faults, tlog>>

\* the same iteration against a peer whose fs::write of line 522 fails: the
\* handler returns through the ? and the connection closes with no response
SendShardNoResponse ==
    /\ pc = "up_send"
    /\ up[Target]
    /\ faults < MaxFaults
    /\ faults' = faults + 1
    /\ RecordShard(Issue(u), Target, ReadStoreResponse(NoResponse(store[Target])))
    /\ UNCHANGED <<up, peerVars, dbop, file, devices, db, coord, d, output, v, tlog>>

\* lines 635-647
BuildManifest(up_) ==
    [file_id |-> up_.file_id,
     file_size |-> Len(file),
     chunk_count |-> ChunkCount(Len(file)),
     encryption_key |-> up_.key,
     shard_map |-> up_.shard_map,
     chunks |-> up_.chunks_info,
     last_verified |-> "None"]

\* line 631
EnoughShards(shard_map) == ~(Len(shard_map) < DATA_SHARDS)

\* lines 629-686
UploadFinish ==
    /\ pc = "up_finish"
    /\ IF ~EnoughShards(u.shard_map)
       THEN /\ u' = [u EXCEPT !.result = "err_not_enough_shards"]
            /\ pc' = "done"
            /\ UNCHANGED <<db, coord, rng>>
       ELSE /\ db' = store_manifest(db, BuildManifest(u), rng)
            /\ rng' = rng + 1
            /\ coord' = (u.file_id :> BuildManifest(u)) @@ coord
            /\ u' = [u EXCEPT !.result = "ok"]
            /\ pc' = "ready"
    /\ UNCHANGED <<store, up, peerVars, dbop, file, devices, d, output, v, faults, tlog>>

(***************************************************************************)
(* upload step by step: send_shard as a call and its return, and the two   *)
(* writes of the manifest one after the other.                             *)
(***************************************************************************)
\* line 611: send_shard is called and the loop awaits it
StoreIssue ==
    /\ pc = "up_send"
    /\ u' = Issue(u)
    /\ pc' = "up_wait"
    /\ UNCHANGED <<store, up, rng, peerVars, dbop, file, devices, db, coord, d, output, v, faults, tlog>>

\* lines 611-626: send_shard returns
StoreComplete ==
    /\ pc = "up_wait"
    /\ LET metadata == [file_id |-> u.file_id, chunk_index |-> u.chunk_idx,
                        shard_index |-> u.shard_idx, nonce |-> u.nonce]
       IN  RecordShard(u, Target, send_shard(up[Target], store[Target],
                                             u.shards[u.shard_idx + 1], metadata, rng))
    /\ UNCHANGED <<up, peerVars, dbop, file, devices, db, coord, d, output, v, faults, tlog>>

\* the peer goes away while send_shard waits for it
PeerDownInFlight(p) ==
    /\ pc = "up_wait"
    /\ up[p]
    /\ faults < MaxFaults
    /\ up' = [up EXCEPT ![p] = FALSE]
    /\ faults' = faults + 1
    /\ UNCHANGED <<store, rng, peerVars, dbop, file, devices, pc, u, db, coord, d, output, v, tlog>>

\* lines 629-650: the count check and db.store_manifest
StoreManifestLocal ==
    /\ pc = "up_finish"
    /\ IF ~EnoughShards(u.shard_map)
       THEN /\ u' = [u EXCEPT !.result = "err_not_enough_shards"]
            /\ pc' = "done"
            /\ UNCHANGED <<db, rng>>
       ELSE /\ db' = store_manifest(db, BuildManifest(u), rng)
            /\ rng' = rng + 1
            /\ pc' = "up_sync"
            /\ UNCHANGED u
    /\ UNCHANGED <<store, up, peerVars, dbop, file, devices, coord, d, output, v, faults, tlog>>

\* lines 653-686: the POST to the coordinator, whose failure is only logged
SendManifestToServer ==
    /\ pc = "up_sync"
    /\ \E sent \in BOOLEAN :
           coord' = IF sent THEN (u.file_id :> BuildManifest(u)) @@ coord ELSE coord
    /\ u' = [u EXCEPT !.result = "ok"]
    /\ pc' = "ready"
    /\ UNCHANGED <<store, up, rng, peerVars, dbop, file, devices, db, d, output, v, faults, tlog>>


(***************************************************************************)
(* download                                                                *)
(***************************************************************************)
EmptySlots == [s \in 1..TOTAL_SHARDS |-> None]

\* lines 776-778
ChunkShards(manifest, chunk_idx) ==
    SelectSeq(manifest.shard_map, LAMBDA l : l.chunk_index = chunk_idx)

\* lines 758-759 with the local manifest never used
UseLocalNever(loc) == FALSE

\* lines 758-759: match db.get_manifest(file_id) { Ok(m) => m, ..
UseLocal(loc) == loc.ok

\* lines 757-768: the manifest of the local store, else the coordinator's
DownloadStart ==
    /\ pc = "ready"
    /\ LET file_id == u.file_id
           loc == get_manifest(db, file_id)
       IN  IF UseLocal(loc)
           THEN /\ d' = [NoDownload EXCEPT !.manifest = loc.manifest, !.shards = EmptySlots,
                                           !.source = "local"]
                /\ pc' = IF loc.manifest.chunk_count = 0 THEN "dl_write" ELSE "dl_fetch"
                /\ UNCHANGED <<db, rng>>
           ELSE IF file_id \in DOMAIN coord
           THEN /\ d' = [NoDownload EXCEPT !.manifest = coord[file_id], !.shards = EmptySlots,
                                           !.source = "coordinator"]
                /\ db' = store_manifest(db, coord[file_id], rng)
                /\ rng' = rng + 1
                /\ pc' = IF coord[file_id].chunk_count = 0 THEN "dl_write" ELSE "dl_fetch"
           ELSE /\ d' = [NoDownload EXCEPT !.result = "err_manifest", !.source = "coordinator"]
                /\ pc' = "done"
                /\ UNCHANGED <<db, rng>>
    /\ UNCHANGED <<store, up, peerVars, dbop, file, devices, u, coord, output, v, faults, tlog>>

\* the fetch loop without the break of lines 784-786
FetchLoopDoneAllTried ==
    d.loc_idx > Len(ChunkShards(d.manifest, d.chunk_idx))

\* lines 783-786: the loop ends at DATA_SHARDS fetches or at the last location
FetchLoopDone ==
    d.count >= DATA_SHARDS \/ d.loc_idx > Len(ChunkShards(d.manifest, d.chunk_idx))

\* lines 783-795: one iteration of the loop over the chunk's ShardLocations
FetchShard ==
    /\ pc = "dl_fetch"
    /\ ~FetchLoopDone
    /\ LET shard_loc == ChunkShards(d.manifest, d.chunk_idx)[d.loc_idx]
           r == fetch_shard(up[shard_loc.device_address],
                            store[shard_loc.device_address], shard_loc.shard_id)
       IN  d' = [d EXCEPT
                   !.shards = IF r.ok
                              THEN [@ EXCEPT ![shard_loc.shard_index + 1] = Some(r.data)]
                              ELSE @,
                   !.count = IF r.ok THEN @ + 1 ELSE @,
                   !.fetched = IF r.ok THEN @ \cup {<<d.chunk_idx, shard_loc.shard_index>>}
                               ELSE @,
                   !.gets = Append(@, <<d.chunk_idx, shard_loc.shard_index>>),
                   !.loc_idx = @ + 1]
    /\ UNCHANGED <<store, up, rng, peerVars, dbop, file, devices, pc, u, db, coord, output, v,
                   faults, tlog>>

\* the same iteration against a peer that accepts the connection and then
\* neither answers nor closes: read_to_end of line 851 never returns
FetchShardStalled ==
    /\ pc = "dl_fetch"
    /\ ~FetchLoopDone
    /\ up[ChunkShards(d.manifest, d.chunk_idx)[d.loc_idx].device_address]
    /\ faults < MaxFaults
    /\ faults' = faults + 1
    /\ d' = [d EXCEPT !.gets = Append(@, <<d.chunk_idx,
                   ChunkShards(d.manifest, d.chunk_idx)[d.loc_idx].shard_index>>)]
    /\ pc' = "dl_blocked"
    /\ UNCHANGED <<store, up, rng, peerVars, dbop, file, devices, u, db, coord, output, v,
                   tlog>>

\* lines 802-808: every slot that was not fetched becomes a zero buffer
FillSlots(shards) ==
    LET first == CHOOSE s \in Present(shards) : \A t \in Present(shards) : s <= t
        shard_size == Len(shards[first].v)
    IN  [s \in 1..TOTAL_SHARDS |->
            IF shards[s].some THEN shards[s] ELSE Some(Zeros(shard_size))]

\* lines 813-818
RECURSIVE ConcatData(_, _)
ConcatData(shard_vec, s) ==
    IF s > DATA_SHARDS THEN <<>>
    ELSE (IF shard_vec[s].some THEN shard_vec[s].v ELSE <<>>) \o ConcatData(shard_vec, s + 1)

\* Vec::truncate
Truncate(bytes, n) == SubSeq(bytes, 1, Min(Len(bytes), n))

\* lines 802-830 for one chunk: [err, chunk]
DecodeChunk(manifest, chunk_idx, shards) ==
    LET rec == RsReconstruct(FillSlots(shards))
        infos == SelectSeq(manifest.chunks, LAMBDA c : c.chunk_index = chunk_idx)
    IN  IF ~rec.ok THEN [err |-> "err_reconstruct", chunk |-> <<>>]
        ELSE IF infos = <<>> THEN [err |-> "err_chunk_info", chunk |-> <<>>]
        ELSE
            LET chunk_info == infos[1]
                encrypted == Truncate(ConcatData(rec.slots, 1), chunk_info.encrypted_size)
                compressed == decrypt_chunk(encrypted, manifest.encryption_key,
                                            chunk_info.nonce)
                chunk == Lz4Decompress(compressed.data, DECOMPRESS_LIMIT)
            IN  IF ~compressed.ok THEN [err |-> "err_decrypt", chunk |-> <<>>]
                ELSE IF ~chunk.ok THEN [err |-> "err_decompress", chunk |-> <<>>]
                ELSE [err |-> "", chunk |-> chunk.data]

\* lines 799-829 with the errors of a chunk passed over: the loop is left and
\* the output written
AfterChunkErrorWrite == "dl_write"

\* lines 799-829: return Err(..) and the ? of each step leave download
AfterChunkError == "done"

\* lines 797-833: after the fetch loop of a chunk
AssembleChunk ==
    /\ pc = "dl_fetch"
    /\ FetchLoopDone
    /\ IF d.count < DATA_SHARDS
       THEN /\ d' = [d EXCEPT !.result = "err_not_enough_shards"]
            /\ pc' = AfterChunkError
       ELSE LET r == DecodeChunk(d.manifest, d.chunk_idx, d.shards)
            IN  IF r.err # ""
                THEN /\ d' = [d EXCEPT !.result = r.err]
                     /\ pc' = AfterChunkError
                ELSE /\ d' = [d EXCEPT !.file_data = @ \o r.chunk,
                                       !.chunk_idx = @ + 1,
                                       !.loc_idx = 1,
                                       !.count = 0,
                                       !.shards = EmptySlots]
                     /\ pc' = IF d.chunk_idx + 1 < d.manifest.chunk_count
                              THEN "dl_fetch" ELSE "dl_write"
    /\ UNCHANGED <<store, up, rng, peerVars, dbop, file, devices, u, db, coord, output, v,
                   faults, tlog>>

\* lines 835-841
DownloadWrite ==
    /\ pc = "dl_write"
    /\ output' = Some(Truncate(d.file_data, d.manifest.file_size))
    /\ d' = [d EXCEPT !.result = "ok"]
    /\ pc' = "done"
    /\ UNCHANGED <<store, up, rng, peerVars, dbop, file, devices, u, db, coord, v, faults, tlog>>

(***************************************************************************)
(* verify (main, lines 996-1057) for the uploaded file                     *)
(***************************************************************************)
VerifyStart ==
    /\ pc = "ready"
    /\ LET m == get_manifest(db, u.file_id)
       IN  IF m.ok
           THEN /\ v' = [NoVerify EXCEPT !.manifest = m.manifest]
                /\ pc' = "vf_probe"
           ELSE /\ v' = [NoVerify EXCEPT !.status = "err_manifest"]
                /\ pc' = "done"
    /\ UNCHANGED <<store, up, rng, peerVars, dbop, file, devices, u, db, coord, d, output,
                   faults, tlog>>

\* lines 1017-1029: one iteration of the loop over the shard map
VerifyProbe ==
    /\ pc = "vf_probe"
    /\ v.loc_idx <= Len(v.manifest.shard_map)
    /\ LET loc == v.manifest.shard_map[v.loc_idx]
           p == loc.device_address
           r == verify_shard_health(up[p], store[p], loc.shard_id)
       IN  /\ v' = [v EXCEPT
                   !.healthy = IF r = "true" THEN @ + 1 ELSE @,
                   !.missing = IF r = "true" THEN @ ELSE @ + 1,
                   !.pong_ok = IF ProbeResponse(up[p], store[p], loc.shard_id) = PONG_OK
                               THEN @ \cup {v.loc_idx} ELSE @,
                   !.healthy_idx = IF r = "true" THEN @ \cup {v.loc_idx} ELSE @,
                   !.sent = IF up[p] THEN @ \cup {PingFrame(loc.shard_id)} ELSE @,
                   !.loc_idx = @ + 1]
           /\ store' = [store EXCEPT ![p] = ProbeOutcome(up[p], store[p], loc.shard_id).fs]
    /\ UNCHANGED <<up, rng, peerVars, dbop, file, devices, pc, u, db, coord, d, output,
                   faults, tlog>>

\* line 1031
FileStatus(healthy, missing) ==
    IF missing = 0 THEN "HEALTHY"
    ELSE IF healthy >= DATA_SHARDS THEN "DEGRADED" ELSE "CRITICAL"

\* lines 1031-1048
VerifyFinish ==
    /\ pc = "vf_probe"
    /\ v.loc_idx > Len(v.manifest.shard_map)
    /\ v' = [v EXCEPT !.status = FileStatus(v.healthy, v.missing)]
    /\ pc' = "done"
    /\ UNCHANGED <<store, up, rng, peerVars, dbop, file, devices, u, db, coord, d, output,
                   faults, tlog>>

(***************************************************************************)
(* The environment: a peer stops accepting connections; a peer loses the   *)
(* file of a shard of the manifest; the bytes a peer holds for a shard     *)
(* change (its first, middle or last byte is altered, or its last byte is    *)
(* cut off).                                                               *)
(***************************************************************************)
PeerDown(p) ==
    /\ pc \in {"up_chunk", "ready"}
    /\ up[p]
    /\ faults < MaxFaults
    /\ up' = [up EXCEPT ![p] = FALSE]
    /\ faults' = faults + 1
    /\ UNCHANGED <<store, rng, peerVars, dbop, file, devices, pc, u, db, coord, d, output, v, tlog>>

FlipByte(bytes, i) == [bytes EXCEPT ![i] = (@ + 1) % ByteMod]

Alter(p, loc, kind, pos, bytes) ==
    /\ store' = [store EXCEPT ![p] = FsWrite(@, loc.shard_id, bytes)]
    /\ tlog' = tlog \cup {[chunk_index |-> loc.chunk_index, shard_index |-> loc.shard_index,
                           kind |-> kind, pos |-> pos]}

\* the shard files of the manifest that were not altered yet
Untouched ==
    {i \in 1..Len(u.shard_map) :
        /\ u.shard_map[i].shard_id \in DOMAIN store[u.shard_map[i].device_address]
        /\ \A t \in tlog : <<t.chunk_index, t.shard_index>>
               # <<u.shard_map[i].chunk_index, u.shard_map[i].shard_index>>}

TamperShard ==
    /\ pc = "ready"
    /\ faults < MaxFaults
    /\ faults' = faults + 1
    /\ \E i \in Untouched :
        LET loc == u.shard_map[i]
            p == loc.device_address
            bytes == store[p][loc.shard_id]
        IN  /\ bytes # <<>>
            /\ \/ \E pos \in {1, (Len(bytes) + 1) \div 2, Len(bytes)} :
                      Alter(p, loc, "flip", pos, FlipByte(bytes, pos))
               \/ Alter(p, loc, "truncate", 0, SubSeq(bytes, 1, Len(bytes) - 1))
    /\ UNCHANGED <<up, rng, peerVars, dbop, file, devices, pc, u, db, coord, d, output, v>>

\* the peer loses the file of a shard
DeleteShard ==
    /\ pc = "ready"
    /\ faults < MaxFaults
    /\ faults' = faults + 1
    /\ \E i \in Untouched :
        LET loc == u.shard_map[i]
            p == loc.device_address
        IN  /\ store' = [store EXCEPT ![p] = [n \in DOMAIN @ \ {loc.shard_id} |-> @[n]]]
            /\ tlog' = tlog \cup {[chunk_index |-> loc.chunk_index,
                                   shard_index |-> loc.shard_index,
                                   kind |-> "delete", pos |-> 0]}
    /\ UNCHANGED <<up, rng, peerVars, dbop, file, devices, pc, u, db, coord, d, output, v>>

\* the blob of the uploaded file no longer decrypts (lines 199-200 fail): the
\* database file was damaged, or the master key file of line 210 was replaced
CorruptManifest ==
    /\ pc = "ready"
    /\ faults < MaxFaults
    /\ u.file_id \in DOMAIN db
    /\ db[u.file_id].intact
    /\ db' = [db EXCEPT ![u.file_id].intact = FALSE]
    /\ faults' = faults + 1
    /\ UNCHANGED <<store, up, rng, peerVars, dbop, file, devices, pc, u, coord, d, output, v,
                   tlog>>

\* the download runs on a device whose store has no entry for the file
ForgetManifest ==
    /\ pc = "ready"
    /\ faults < MaxFaults
    /\ u.file_id \in DOMAIN db
    /\ db' = [f \in DOMAIN db \ {u.file_id} |-> db[f]]
    /\ faults' = faults + 1
    /\ UNCHANGED <<store, up, rng, peerVars, dbop, file, devices, pc, u, coord, d, output, v,
                   tlog>>

Files == {[i \in 1..n |-> i] : n \in 0..MaxFileLen}

Init ==
    /\ store = [p \in Peers |-> <<>>]
    /\ up = [p \in Peers |-> TRUE]
    /\ rng = 0
    /\ conn = [peer |-> 0, op |-> "NONE", id |-> <<>>, payload |-> <<>>, frame |-> <<>>,
               responded |-> FALSE, resp |-> <<>>]
    /\ acked = [p \in Peers |-> <<>>]
    /\ nconn = 0
    /\ tasks = <<>>
    /\ dbop = NoDbOp
    /\ file \in Files
    /\ devices \in {[i \in 1..n |-> i] : n \in 0..MaxPeers}
    /\ pc = "idle"
    /\ u = NoUpload
    /\ db = <<>>
    /\ coord = <<>>
    /\ d = NoDownload
    /\ output = None
    /\ v = NoVerify
    /\ faults = 0
    /\ tlog = {}

\* the client uploads a file and then downloads it
Next ==
    \/ UploadStart
    \/ UploadChunk
    \/ SendShard
    \/ UploadFinish
    \/ DownloadStart
    \/ FetchShard
    \/ AssembleChunk
    \/ DownloadWrite
    \/ \E p \in Peers : PeerDown(p)
    \/ TamperShard
    \/ DeleteShard

\* one upload, step by step
NextOrder ==
    \/ UploadStart
    \/ UploadChunk
    \/ StoreIssue
    \/ StoreComplete
    \/ StoreManifestLocal
    \/ SendManifestToServer
    \/ \E p \in Peers : PeerDown(p)
    \/ \E p \in Peers : PeerDownInFlight(p)

SpecOrder == Init /\ [][NextOrder]_vars

\* the client uploads a file and then verifies it
NextVerify ==
    \/ UploadStart
    \/ UploadChunk
    \/ SendShard
    \/ UploadFinish
    \/ VerifyStart
    \/ VerifyProbe
    \/ VerifyFinish
    \/ \E p \in Peers : PeerDown(p)
    \/ DeleteShard

SpecVerify == Init /\ [][NextVerify]_vars

\* the coordinator's copy of the manifest is replaced by a POST /manifest of
\* another device under the same file id
CoordinatorOverwritten ==
    /\ pc = "ready"
    /\ faults < MaxFaults
    /\ u.file_id \in DOMAIN coord
    /\ coord[u.file_id].shard_map # <<>>
    /\ coord' = [coord EXCEPT ![u.file_id].shard_map = SubSeq(@, 1, Len(@) - 1)]
    /\ faults' = faults + 1
    /\ UNCHANGED <<store, up, rng, peerVars, dbop, file, devices, pc, u, db, d, output, v,
                   tlog>>

\* the command line is run again for the uploaded file once a download or a
\* verify has returned
RunAgain ==
    /\ pc = "done"
    /\ u.result = "ok"
    /\ pc' = "ready"
    /\ d' = NoDownload
    /\ v' = NoVerify
    /\ UNCHANGED <<store, up, rng, peerVars, dbop, file, devices, u, db, coord, output,
                   faults, tlog>>

\* the file is uploaded once more, under a file id of its own
UploadAgain ==
    /\ pc = "ready"
    /\ Cardinality(DOMAIN coord) < MaxPuts - 1
    /\ pc' = "idle"
    /\ UNCHANGED <<store, up, rng, peerVars, dbop, file, devices, u, db, coord, d, output,
                   v, faults, tlog>>

\* lines 958-966: the list command
ListRun ==
    /\ pc = "ready"
    /\ dbop' = [dbop EXCEPT !.op = "list", !.file_id = <<>>, !.ok = TRUE,
                            !.result = list_files(db)]
    /\ UNCHANGED <<store, up, rng, peerVars, file, devices, pc, u, db, coord, d, output, v,
                   faults, tlog>>

\* uploads, downloads, listings and verify runs one after the other on a node
NextNode ==
    \/ UploadStart
    \/ UploadChunk
    \/ SendShard
    \/ UploadFinish
    \/ UploadAgain
    \/ DownloadStart
    \/ FetchShard
    \/ AssembleChunk
    \/ DownloadWrite
    \/ VerifyStart
    \/ VerifyProbe
    \/ VerifyFinish
    \/ ListRun
    \/ RunAgain
    \/ CorruptManifest
    \/ ForgetManifest
    \/ CoordinatorOverwritten

SpecNode == Init /\ [][NextNode]_vars

\* the client uploads a file and downloads it with the manifest store as it then is
NextResolve ==
    \/ UploadStart
    \/ UploadChunk
    \/ SendShard
    \/ UploadFinish
    \/ CorruptManifest
    \/ ForgetManifest
    \/ DownloadStart
    \/ FetchShard
    \/ AssembleChunk
    \/ DownloadWrite

SpecResolve == Init /\ [][NextResolve]_vars

\* upload and download against peers that fail inside a connection they accepted
NextFaulty ==
    \/ UploadStart
    \/ UploadChunk
    \/ SendShard
    \/ SendShardNoResponse
    \/ UploadFinish
    \/ DownloadStart
    \/ FetchShard
    \/ FetchShardStalled
    \/ AssembleChunk
    \/ DownloadWrite

\* a step of download that has returned from every await
DownloadStep == FetchShard \/ AssembleChunk \/ DownloadWrite

\* the runtime runs the download task whenever it is ready to run
SpecFaulty == Init /\ [][NextFaulty]_vars /\ WF_vars(DownloadStep)

Spec == Init /\ [][Next]_vars

(***************************************************************************)
(* The peer node service under arbitrary clients: listen accepts a         *)
(* connection and handle_connection serves it.  op, id and payload are     *)
(* what the client meant to send; the handler sees only the frame.         *)
(* op is STORE_CUT when the stream ends inside the metadata and STORE_PART *)
(* when it ends inside the payload.                                        *)
(***************************************************************************)
NoConn == [peer |-> 0, op |-> "NONE", id |-> <<>>, payload |-> <<>>, frame |-> <<>>,
           responded |-> FALSE, resp |-> <<>>]

Serve(p, op, id, payload, frame) ==
    LET r == HandleConnection(store[p], frame, rng)
    IN  /\ up[p]
        /\ nconn < MaxConns
        /\ nconn' = nconn + 1
        /\ store' = [store EXCEPT ![p] = r.fs]
        /\ rng' = IF r.minted THEN rng + 1 ELSE rng
        /\ conn' = [peer |-> p, op |-> op, id |-> id, payload |-> payload,
                    frame |-> frame, responded |-> r.responded, resp |-> r.resp]
        /\ acked' = IF r.minted
                     THEN [acked EXCEPT ![p] = (r.resp :> payload) @@ acked[p]]
                     ELSE acked
        /\ UNCHANGED <<up, tasks, clientVars>>

\* metadata a client may send: the JSON of a ShardMetadata, or other bytes
GoodMeta == MetaJson([file_id |-> Uuid(98), chunk_index |-> 0, shard_index |-> 0,
                      nonce |-> [len |-> NONCE_LEN, seed |-> 1]])
BadMeta == <<123, 34, 120>>
Payloads == {<<>>, ERR, <<7, 8>>}

\* identifiers a client may ask for
LookupIds(p) ==
    DOMAIN acked[p]
    \cup {id \o DOT_META : id \in DOMAIN acked[p]}
    \cup {id \o <<32>> : id \in DOMAIN acked[p]}
    \cup {<<>>, PARENT_DB, Uuid(99)}

RawStore(p) ==
    \E meta \in {GoodMeta, BadMeta} : \E x \in Payloads :
        Serve(p, "STORE", <<>>, x, StoreFrame(meta, x))

\* a STORE whose stream ends before the frame is complete
RawStoreCut(p) ==
    \E cut \in 4..(4 + Len(GoodMeta) - 1) :
        Serve(p, "STORE_CUT", <<>>, <<>>, SubSeq(StoreFrame(GoodMeta, <<7, 8>>), 1, cut))

\* a STORE whose stream ends inside the payload the client meant to send; the
\* payload recorded is the part that arrived
RawStorePart(p) ==
    Serve(p, "STORE_PART", <<>>, <<7>>, SubSeq(StoreFrame(GoodMeta, <<7, 8>>), 1,
                                              4 + Len(GoodMeta) + 1))

RawGet(p) == \E id \in LookupIds(p) : Serve(p, "GET", id, <<>>, GetFrame(id))

RawPing(p) == \E id \in LookupIds(p) : Serve(p, "PING", id, <<>>, PingFrame(id))

InitPeer ==
    /\ store = [p \in Peers |-> <<>>]
    /\ up = [p \in Peers |-> TRUE]
    /\ rng = 0
    /\ conn = NoConn
    /\ acked = [p \in Peers |-> <<>>]
    /\ nconn = 0
    /\ tasks = <<>>
    /\ dbop = NoDbOp
    /\ file = <<>>
    /\ devices = <<>>
    /\ pc = "serving"
    /\ u = NoUpload
    /\ db = <<>>
    /\ coord = <<>>
    /\ d = NoDownload
    /\ output = None
    /\ v = NoVerify
    /\ faults = 0
    /\ tlog = {}

NextPeer ==
    \E p \in Peers :
        \/ RawStore(p)
        \/ RawStoreCut(p)
        \/ RawStorePart(p)
        \/ RawGet(p)
        \/ RawPing(p)

SpecPeer == InitPeer /\ [][NextPeer]_vars

(***************************************************************************)
(* Splitting and joining on their own: file holds a ciphertext of any      *)
(* length from 1 to MaxCipherLen; upload's split and encode (lines         *)
(* 577-597) fill u.shards, download's reconstruct, concatenate and         *)
(* truncate (lines 806-826) fill d.file_data from all of them.             *)
(***************************************************************************)
MaxCipherLen == 13

Strides == 1..3

Ciphertexts ==
    {[i \in 1..n |-> (i * k) % ByteMod] : n \in 1..MaxCipherLen, k \in Strides}

InitSplit ==
    /\ store = [p \in Peers |-> <<>>]
    /\ up = [p \in Peers |-> TRUE]
    /\ rng = 0
    /\ conn = NoConn
    /\ acked = [p \in Peers |-> <<>>]
    /\ nconn = 0
    /\ tasks = <<>>
    /\ dbop = NoDbOp
    /\ file \in Ciphertexts
    /\ devices = <<>>
    /\ pc = "split"
    /\ u = NoUpload
    /\ db = <<>>
    /\ coord = <<>>
    /\ d = NoDownload
    /\ output = None
    /\ v = NoVerify
    /\ faults = 0
    /\ tlog = {}

\* lines 577-597
SplitEncode ==
    /\ pc = "split"
    /\ u' = [u EXCEPT !.shards = EncodeChunk(file)]
    /\ pc' = "join"
    /\ UNCHANGED <<store, up, rng, peerVars, dbop, file, devices, db, coord, d, output, v,
                   faults, tlog>>

\* lines 806-826 on the shards as they were produced
JoinTruncate ==
    /\ pc = "join"
    /\ LET slots == [s \in 1..TOTAL_SHARDS |-> Some(u.shards[s])]
           rec == RsReconstruct(FillSlots(slots))
       IN  d' = [d EXCEPT !.shards = slots,
                          !.file_data = Truncate(ConcatData(rec.slots, 1), Len(file)),
                          !.result = IF rec.ok THEN "ok" ELSE "err_reconstruct"]
    /\ pc' = "done"
    /\ UNCHANGED <<store, up, rng, peerVars, dbop, file, devices, u, db, coord, output, v,
                   faults, tlog>>

NextSplit == SplitEncode \/ JoinTruncate

SpecSplit == InitSplit /\ [][NextSplit]_vars

\* once verify has returned a client fetches, from the peer of the manifest's
\* first ShardLocation, that shard, its sidecar or an unknown name
GetAfterVerify ==
    /\ v.status \notin {"none", "err_manifest"}
    /\ v.manifest.shard_map # <<>>
    /\ LET loc == v.manifest.shard_map[1]
       IN  \E id \in {loc.shard_id, loc.shard_id \o DOT_META, Uuid(99)} :
               Serve(loc.device_address, "GET", id, <<>>, GetFrame(id))

\* upload, verify, and GET requests on the peers afterwards
NextReadOnly ==
    \/ UploadStart
    \/ UploadChunk
    \/ SendShard
    \/ UploadFinish
    \/ VerifyStart
    \/ VerifyProbe
    \/ VerifyFinish
    \/ \E p \in Peers : PeerDown(p)
    \/ DeleteShard
    \/ GetAfterVerify

SpecReadOnly == Init /\ [][NextReadOnly]_vars


(***************************************************************************)
(* The Database methods called on their own, on manifests of a few file    *)
(* ids and sizes.                                                          *)
(***************************************************************************)
FileIds == {Uuid(2), Uuid(10), Uuid(11)}

SomeManifest(file_id, file_size) ==
    [file_id |-> file_id,
     file_size |-> file_size,
     chunk_count |-> ChunkCount(file_size),
     encryption_key |-> RandomBytes(KEY_LEN, 0),
     shard_map |-> <<>>,
     chunks |-> <<>>,
     last_verified |-> "None"]

\* lines 144-149
StoreManifest ==
    /\ rng < MaxPuts
    /\ \E file_id \in FileIds : \E file_size \in {0, 1} :
           LET m == SomeManifest(file_id, file_size)
           IN  /\ db' = store_manifest(db, m, rng)
               /\ dbop' = [op |-> "put", file_id |-> file_id, ok |-> TRUE, result |-> m,
                           puts |-> (file_id :> m) @@ dbop.puts]
    /\ rng' = rng + 1
    /\ UNCHANGED <<store, up, peerVars, file, devices, pc, u, coord, d, output, v, faults,
                   tlog>>

\* lines 151-156
GetManifest ==
    /\ \E file_id \in FileIds :
           LET r == get_manifest(db, file_id)
           IN  dbop' = [dbop EXCEPT !.op = "get", !.file_id = file_id, !.ok = r.ok,
                                    !.result = r.manifest]
    /\ UNCHANGED <<store, up, rng, peerVars, file, devices, pc, u, db, coord, d, output, v,
                   faults, tlog>>

\* lines 158-170
ListFiles ==
    /\ dbop' = [dbop EXCEPT !.op = "list", !.file_id = <<>>, !.ok = TRUE,
                            !.result = list_files(db)]
    /\ UNCHANGED <<store, up, rng, peerVars, file, devices, pc, u, db, coord, d, output, v,
                   faults, tlog>>

NextDb == StoreManifest \/ GetManifest \/ ListFiles

SpecDb == InitPeer /\ [][NextDb]_vars

(***************************************************************************)
(* listen with its connections open at the same time.  Each accepted       *)
(* connection is a task of its own (tokio::spawn, line 445).  A task holds *)
(* the bytes that have arrived (buf), whether the client has closed its    *)
(* write side (eof), and its outcome once handle_connection has returned.  *)
(* want is the frame the client means to send: a STORE goes out as the     *)
(* header first and the rest later, a GET or a PING in one piece.          *)
(***************************************************************************)
Listener == 1

NewTask(want) == [want |-> want, buf |-> <<>>, eof |-> FALSE, done |-> FALSE,
                  responded |-> FALSE, resp |-> <<>>]

IsLookupFrame(bytes) ==
    Len(bytes) >= 4 /\ (SubSeq(bytes, 1, 3) = GET_ \/ SubSeq(bytes, 1, 4) = PING_)

Wants ==
    {StoreFrame(GoodMeta, <<7, 8>>)}
    \cup {GetFrame(id) : id \in DOMAIN acked[Listener] \cup {Uuid(99)}}
    \cup {PingFrame(id) : id \in DOMAIN acked[Listener] \cup {Uuid(99)}}

\* the accept loop with the handler awaited inside it instead of spawned
AcceptLoopAwaitsHandler == \A i \in 1..Len(tasks) : tasks[i].done

\* lines 441-453: the loop is back at accept() as soon as the task is spawned
AcceptLoopFree == TRUE

\* lines 442-449
Accept ==
    /\ up[Listener]
    /\ AcceptLoopFree
    /\ Len(tasks) < MaxTasks
    /\ \E want \in Wants : tasks' = Append(tasks, NewTask(want))
    /\ UNCHANGED <<store, up, rng, conn, acked, nconn, clientVars>>

\* the client of connection i sends its next piece
ClientSend(i) ==
    /\ ~tasks[i].done
    /\ tasks[i].buf # tasks[i].want
    /\ tasks' = [tasks EXCEPT ![i].buf =
                     IF @ = <<>> /\ ~IsLookupFrame(tasks[i].want)
                     THEN SubSeq(tasks[i].want, 1, 4) ELSE tasks[i].want]
    /\ UNCHANGED <<store, up, rng, conn, acked, nconn, clientVars>>

\* the client of connection i, having sent its frame, shuts its write side down
ClientShutdown(i) ==
    /\ ~tasks[i].done
    /\ ~tasks[i].eof
    /\ tasks[i].buf = tasks[i].want
    /\ tasks' = [tasks EXCEPT ![i].eof = TRUE]
    /\ UNCHANGED <<store, up, rng, conn, acked, nconn, clientVars>>

\* no await of handle_connection is pending on input: a lookup has its line
\* (lines 480-485), the other reads have their bytes or the end of the stream
InputComplete(t) ==
    \/ t.eof
    \/ /\ IsLookupFrame(t.buf)
       /\ \E k \in 5..Len(t.buf) : t.buf[k] = NEWLINE \/ t.buf[k] = 0

\* handle_connection of task i runs to its end
TaskStep(i) ==
    /\ ~tasks[i].done
    /\ InputComplete(tasks[i])
    /\ LET r == HandleConnection(store[Listener], tasks[i].buf, rng)
           meta_len == FromBe32(SubSeq(tasks[i].buf, 1, 4))
       IN  /\ store' = [store EXCEPT ![Listener] = r.fs]
           /\ rng' = IF r.minted THEN rng + 1 ELSE rng
           /\ acked' = IF r.minted
                        THEN [acked EXCEPT ![Listener] =
                                 (r.resp :> SubSeq(tasks[i].buf, 5 + meta_len,
                                                   Len(tasks[i].buf))) @@ @]
                        ELSE acked
           /\ tasks' = [tasks EXCEPT ![i].done = TRUE, ![i].responded = r.responded,
                                     ![i].resp = r.resp]
    /\ UNCHANGED <<up, conn, nconn, clientVars>>

NextListen ==
    \/ Accept
    \/ \E i \in 1..Len(tasks) :
           \/ ClientSend(i)
           \/ ClientShutdown(i)
           \/ TaskStep(i)

SpecListen == InitPeer /\ [][NextListen]_vars

(***************************************************************************)
(* Concurrent STORE handlers on one peer, statement by statement.  A task  *)
(* of tasks is a handler whose frame arrived whole and parsed (line 516):  *)
(* step is the statement it has reached, shard_data its payload.  The      *)
(* handlers run on the threads of the runtime, so their statements         *)
(* interleave; a write that fails returns through the ? of its line.       *)
(***************************************************************************)
MaxStores == 2

\* the payload of the k-th STORE
StorePayload(k) == <<7, k>>

NewStore(k) == [shard_data |-> StorePayload(k), step |-> "parsed", shard_id |-> <<>>]

\* lines 442-449 and 507-516: a connection is accepted and its frame read
StoreAccept ==
    /\ up[Listener]
    /\ Len(tasks) < MaxStores
    /\ tasks' = Append(tasks, NewStore(Len(tasks) + 1))
    /\ UNCHANGED <<store, up, rng, conn, acked, nconn, clientVars>>

\* lines 518-520
StoreMint(i) ==
    /\ tasks[i].step = "parsed"
    /\ tasks' = [tasks EXCEPT ![i].step = "minted", ![i].shard_id = NewShardId(rng)]
    /\ rng' = rng + 1
    /\ UNCHANGED <<store, up, conn, acked, nconn, clientVars>>

\* line 522
StoreWriteMeta(i) ==
    /\ tasks[i].step = "minted"
    /\ store' = [store EXCEPT ![Listener] =
                     FsWrite(@, tasks[i].shard_id \o DOT_META, GoodMeta)]
    /\ tasks' = [tasks EXCEPT ![i].step = "meta_written"]
    /\ UNCHANGED <<up, rng, conn, acked, nconn, clientVars>>

\* line 523
StoreWriteShard(i) ==
    /\ tasks[i].step = "meta_written"
    /\ store' = [store EXCEPT ![Listener] =
                     FsWrite(@, tasks[i].shard_id, tasks[i].shard_data)]
    /\ tasks' = [tasks EXCEPT ![i].step = "shard_written"]
    /\ UNCHANGED <<up, rng, conn, acked, nconn, clientVars>>

\* lines 522-523: fs::write returns an error and the handler ends there
StoreWriteFails(i) ==
    /\ tasks[i].step \in {"minted", "meta_written"}
    /\ faults < MaxFaults
    /\ faults' = faults + 1
    /\ tasks' = [tasks EXCEPT ![i].step = "failed"]
    /\ UNCHANGED <<store, up, rng, conn, acked, nconn, file, devices, pc, u, db, dbop,
                   coord, d, output, v, tlog>>

\* line 525
StoreRespond(i) ==
    /\ tasks[i].step = "shard_written"
    /\ tasks' = [tasks EXCEPT ![i].step = "done"]
    /\ acked' = [acked EXCEPT ![Listener] =
                     (tasks[i].shard_id :> tasks[i].shard_data) @@ @]
    /\ UNCHANGED <<store, up, rng, conn, nconn, clientVars>>

\* the names the handlers have drawn so far
DrawnNames ==
    UNION {{tasks[i].shard_id, tasks[i].shard_id \o DOT_META} :
               i \in {j \in 1..Len(tasks) : tasks[j].step # "parsed"}}

\* lines 461-505: another connection's GET or PING, served between two statements
Observe ==
    /\ up[Listener]
    /\ \E name \in DrawnNames : \E op \in {"GET", "PING"} :
           LET frame == IF op = "GET" THEN GetFrame(name) ELSE PingFrame(name)
               r == HandleConnection(store[Listener], frame, rng)
           IN  /\ conn' = [peer |-> Listener, op |-> op, id |-> name, payload |-> <<>>,
                           frame |-> frame, responded |-> r.responded, resp |-> r.resp]
               /\ store' = [store EXCEPT ![Listener] = r.fs]
    /\ UNCHANGED <<up, rng, acked, nconn, tasks, clientVars>>

NextStore ==
    \/ StoreAccept
    \/ Observe
    \/ \E i \in 1..Len(tasks) :
           \/ StoreMint(i)
           \/ StoreWriteMeta(i)
           \/ StoreWriteShard(i)
           \/ StoreWriteFails(i)
           \/ StoreRespond(i)

SpecStore == InitPeer /\ [][NextStore]_vars

(***************************************************************************)
(* Properties of the pipeline.                                             *)
(***************************************************************************)
UploadReturned == u.result # "none"
DownloadReturned == d.result # "none"
Persisted == u.file_id \in DOMAIN db

\* the ShardLocations of chunk c in the uploaded manifest
Placed(c) == SelectSeq(u.shard_map, LAMBDA l : l.chunk_index = c)

\* the peer is up and holds the shard file as it was stored
Fetchable(loc) ==
    /\ up[loc.device_address]
    /\ loc.shard_id \in DOMAIN store[loc.device_address]
    /\ \A t \in tlog : <<t.chunk_index, t.shard_index>> # <<loc.chunk_index, loc.shard_index>>

FetchableCount(c) == Len(SelectSeq(Placed(c), Fetchable))

AllStoredAndReachable ==
    /\ \A p \in Peers : up[p]
    /\ \A c \in 0..(NumChunks(file) - 1) : Len(Placed(c)) = TOTAL_SHARDS
    /\ \A i \in 1..Len(u.shard_map) :
           u.shard_map[i].shard_id \in DOMAIN store[u.shard_map[i].device_address]

\* line 631, had it asked every chunk for DATA_SHARDS placements
EnoughShardsPerChunk(shard_map) ==
    \A c \in 0..(NumChunks(file) - 1) :
        Len(SelectSeq(shard_map, LAMBDA l : l.chunk_index = c)) >= DATA_SHARDS

\* the file status when the healthy shards are counted chunk by chunk
FileStatusPerChunk(manifest, healthy_idx, missing) ==
    IF missing = 0 THEN "HEALTHY"
    ELSE IF \A c \in 0..(manifest.chunk_count - 1) :
                Cardinality({i \in healthy_idx : manifest.shard_map[i].chunk_index = c})
                    >= DATA_SHARDS
    THEN "DEGRADED" ELSE "CRITICAL"

(***************************************************************************)
(* C1: for every file content, the empty file included, and every          *)
(* non-empty peer set on which every STORE and GET succeeds, upload        *)
(* returns a FileId and the download of it writes exactly the file.        *)
(***************************************************************************)
C1_RoundTrip ==
    (devices # <<>> /\ faults = 0)
        => /\ UploadReturned => u.result = "ok"
           /\ DownloadReturned => (d.result = "ok" /\ output = Some(file))

(***************************************************************************)
(* C2: download succeeds and reproduces the file whenever, for each chunk, *)
(* at least DATA_SHARDS of the shards recorded in the manifest can still   *)
(* be fetched, whichever shard indices the others have.  No stored shard   *)
(* has had its bytes changed: shards are only lost.                        *)
(***************************************************************************)
OnlyLosses == \A t \in tlog : t.kind = "delete"

C2_ErasureTolerance ==
    (/\ DownloadReturned
     /\ OnlyLosses
     /\ \A c \in 0..(NumChunks(file) - 1) : FetchableCount(c) >= DATA_SHARDS)
        => (d.result = "ok" /\ output = Some(file))

(***************************************************************************)
(* C3: upload of a file with at least one chunk persists a manifest,       *)
(* locally and at the coordinator, if and only if every chunk ends with at *)
(* least DATA_SHARDS ShardLocations; otherwise it returns an error and the *)
(* manifest store is unchanged.                                            *)
(***************************************************************************)
C3_PersistIffEveryChunkPlaced ==
    (UploadReturned /\ devices # <<>> /\ NumChunks(file) >= 1)
        => /\ Persisted <=> EnoughShardsPerChunk(u.shard_map)
           /\ (u.file_id \in DOMAIN coord) <=> EnoughShardsPerChunk(u.shard_map)
           /\ (u.result = "ok") <=> EnoughShardsPerChunk(u.shard_map)

(***************************************************************************)
(* C4: whatever bytes the peers return, a download either fails or writes  *)
(* exactly the uploaded bytes: the output path never holds other content,  *)
(* and a download that returns success has written the file.               *)
(***************************************************************************)
C4_Integrity ==
    /\ output.some => output.v = file
    /\ d.result = "ok" => output = Some(file)

\* a download that fetched an altered shard and still wrote the file
C4_Witness ==
    /\ d.result = "ok"
    /\ output = Some(file)
    /\ \E t \in tlog : t.kind = "flip" /\ <<t.chunk_index, t.shard_index>> \in d.fetched

(***************************************************************************)
(* C5 as claimed: with all TOTAL_SHARDS shards of each chunk stored and    *)
(* reachable, changing the stored bytes of any one shard, data or parity,  *)
(* makes the download fail with a decryption error.                        *)
(***************************************************************************)
OneShardChanged == faults = 1 /\ Cardinality(tlog) = 1 /\ \A t \in tlog : t.kind = "flip"

C5_AnyShardTamperDetected ==
    (DownloadReturned /\ AllStoredAndReachable /\ OneShardChanged)
        => d.result = "err_decrypt"

(***************************************************************************)
(* C5 as amended: with all shards of each chunk stored and reachable,      *)
(* changing one byte of a data shard (shard_index below DATA_SHARDS) at an *)
(* offset inside the chunk's ciphertext makes the download fail with a     *)
(* decryption error at that chunk.                                         *)
(***************************************************************************)
InCiphertext(t) ==
    LET size == d.manifest.chunks[t.chunk_index + 1].encrypted_size
        shard_size == (size + DATA_SHARDS - 1) \div DATA_SHARDS
    IN  t.shard_index < DATA_SHARDS /\ t.shard_index * shard_size + t.pos <= size

C5_DataShardTamperDetected ==
    (DownloadReturned /\ AllStoredAndReachable /\ OneShardChanged)
        => \A t \in tlog :
               InCiphertext(t) => (d.result = "err_decrypt" /\ d.chunk_idx = t.chunk_index)

C5_Witness ==
    /\ DownloadReturned /\ AllStoredAndReachable /\ OneShardChanged
    /\ \E t \in tlog : InCiphertext(t) /\ t.chunk_index = 1
    /\ d.result = "err_decrypt"

(***************************************************************************)
(* C11: download asks the coordinator for the manifest, and writes the     *)
(* answer into the local store, only when the local store has no entry for *)
(* the file id, not when the entry is there and fails to decrypt.          *)
(***************************************************************************)
C11_CoordinatorOnlyWhenNotFound ==
    [][(\/ d.source = "none" /\ d'.source = "coordinator"
        \/ pc = "ready" /\ pc' # "ready" /\ db' # db)
           => u.file_id \notin DOMAIN db]_vars

(***************************************************************************)
(* C12: when discovery returns no peer, upload fails with an error before  *)
(* any STORE reaches a peer and without writing to the manifest store.     *)
(***************************************************************************)
C12_NoPeersFailsEarly ==
    (devices = <<>> /\ pc # "idle")
        => /\ u.result = "err_no_devices"
           /\ pc = "done"
           /\ \A p \in Peers : store[p] = <<>>
           /\ db = <<>>
           /\ coord = <<>>

C12_Witness == devices = <<>> /\ file # <<>> /\ u.result = "err_no_devices"

(***************************************************************************)
(* C13: every download terminates, with success or with an error, also     *)
(* when a peer accepts the connection and then never answers and never     *)
(* closes: a download that has begun and has not returned can always take *)
(* its next step.                                                          *)
(***************************************************************************)
C13_DownloadTerminates ==
    (d.source # "none" /\ ~DownloadReturned) => ENABLED DownloadStep

VerifyReturned == v.status \in {"HEALTHY", "DEGRADED", "CRITICAL"}

C6_VerifyClassification ==
    VerifyReturned => v.status = FileStatusPerChunk(v.manifest, v.healthy_idx, v.missing)

(***************************************************************************)
(* C7: verify counts a ShardLocation as healthy only if the peer answered  *)
(* the PING with PONG:OK, so a file with an absent shard is never reported *)
(* HEALTHY.                                                                *)
(***************************************************************************)
C7_HealthyOnlyOnPongOk ==
    /\ v.healthy_idx \subseteq v.pong_ok
    /\ v.status = "HEALTHY" =>
           \A i \in 1..Len(v.manifest.shard_map) :
               v.manifest.shard_map[i].shard_id
                   \in DOMAIN store[v.manifest.shard_map[i].device_address]

IsUuid(bytes) == \E n \in 0..99 : bytes = Uuid(n)

(***************************************************************************)
(* C8: after a STORE was answered with shard id id for payload X, every    *)
(* later GET:id returns exactly X and every later PING:id returns PONG:OK, *)
(* whatever STORE, GET and PING requests came in between.                  *)
(***************************************************************************)
Known(c) == c.op \in {"GET", "PING"} /\ c.id \in DOMAIN acked[c.peer]

C8_StoreGetRoundTrip ==
    /\ \A p \in Peers : \A id \in DOMAIN acked[p] :
           id \in DOMAIN store[p] /\ store[p][id] = acked[p][id]
    /\ (conn.op = "GET" /\ Known(conn))
           => (conn.responded /\ conn.resp = acked[conn.peer][conn.id])
    /\ (conn.op = "PING" /\ Known(conn))
           => (conn.responded /\ conn.resp = PONG_OK)

C8_Witness ==
    /\ conn.op = "GET"
    /\ Known(conn)
    /\ conn.resp = <<7, 8>>
    /\ Cardinality(DOMAIN acked[conn.peer]) >= 2

(***************************************************************************)
(* C9: for every identifier that no successful STORE returned, GET answers *)
(* ERR and PING answers PONG:MISSING.                                      *)
(***************************************************************************)
C9_UnknownIdentifiers ==
    /\ (conn.op = "GET" /\ ~Known(conn)) => conn.resp = ERR
    /\ (conn.op = "PING" /\ ~Known(conn)) => conn.resp = PONG_MISSING

(***************************************************************************)
(* C10: on every connection on which the client sent a frame the peer      *)
(* writes exactly one response, which is a shard id, shard bytes, ERR,     *)
(* PONG:OK or PONG:MISSING; a STORE cut short is answered with ERR.        *)
(***************************************************************************)
C10_ProtocolFraming ==
    (conn.op # "NONE" /\ conn.frame # <<>>) =>
        /\ conn.responded
        /\ conn.op = "STORE_CUT" => conn.resp = ERR
        /\ conn.op = "STORE" => (IsUuid(conn.resp) \/ conn.resp = ERR)
        /\ conn.op = "PING" => conn.resp \in {PONG_OK, PONG_MISSING}

(***************************************************************************)
(* C14: when the client's connection ends before the whole STORE frame     *)
(* was sent, metadata or payload cut short, the peer creates no shard file *)
(* and no sidecar file.                                                    *)
(***************************************************************************)
C14_CutStoreLeavesNoFile ==
    [][(nconn' = nconn + 1 /\ conn'.op \in {"STORE_CUT", "STORE_PART"})
           => store' = store]_vars

(***************************************************************************)
(* C15: a STORE connection that has sent its header and then neither sends *)
(* more nor closes never keeps the accept loop from accepting a new        *)
(* connection, and never keeps a GET or a PING on another connection from  *)
(* being answered.                                                         *)
(***************************************************************************)
Stalled(t) == ~t.done /\ ~t.eof /\ ~IsLookupFrame(t.buf) /\ Len(t.buf) = 4

C15_HandlerIndependence ==
    (\E s \in 1..Len(tasks) : Stalled(tasks[s]))
        => /\ Len(tasks) < MaxTasks => ENABLED Accept
           /\ \A j \in 1..Len(tasks) :
                  (~tasks[j].done /\ IsLookupFrame(tasks[j].buf) /\ InputComplete(tasks[j]))
                      => ENABLED TaskStep(j)
           /\ \A j \in 1..Len(tasks) :
                  (tasks[j].done /\ IsLookupFrame(tasks[j].buf)) => tasks[j].responded

\* a GET accepted after a STORE stalled was answered with the shard it asked for
C15_Witness ==
    \E s \in 1..Len(tasks) : \E j \in (s + 1)..Len(tasks) :
        /\ Stalled(tasks[s])
        /\ tasks[j].done
        /\ SubSeq(tasks[j].buf, 1, 3) = GET_
        /\ tasks[j].resp = <<7, 8>>

(***************************************************************************)
(* C17: every ShardLocation of a persisted manifest holds the complete     *)
(* shard identifier its peer returned: a STORE whose connection the peer   *)
(* closed without a response, or answered with ERR or with less than an    *)
(* identifier, adds no ShardLocation.                                      *)
(***************************************************************************)
C17_LocationsHoldPeerIds ==
    \A f \in DOMAIN db :
        LET m == db[f].sealed
        IN  \A i \in 1..Len(m.shard_map) : IsUuid(m.shard_map[i].shard_id)

(***************************************************************************)
(* C18: for every chunk and every choice of DATA_SHARDS fetched shard      *)
(* indices, after the reconstruct step each data slot holds the data shard *)
(* upload produced for that index; slots that were not fetched are         *)
(* recomputed, not used as shard content.                                  *)
(***************************************************************************)
\* the shards upload produced for chunk c
UploadedShards(c) ==
    EncodeChunk(encrypt_chunk(Lz4Compress(FileChunk(file, c)), u.key,
                              d.manifest.chunks[c + 1].nonce.seed).encrypted)

C18_ReconstructRestoresData ==
    (pc = "dl_fetch" /\ FetchLoopDone /\ d.count >= DATA_SHARDS /\ OnlyLosses)
        => LET rec == RsReconstruct(FillSlots(d.shards))
           IN  /\ rec.ok
               /\ \A s \in 1..DATA_SHARDS :
                      rec.slots[s] = Some(UploadedShards(d.chunk_idx)[s])

(***************************************************************************)
(* C19: for each chunk the GET requests go out one at a time in the order  *)
(* of the chunk's ShardLocations in the manifest; no GET is issued for the *)
(* chunk after DATA_SHARDS fetches succeeded; with fewer successes after   *)
(* all its locations were tried, download aborts with an error before      *)
(* decrypting the chunk and without touching later chunks.                 *)
(***************************************************************************)
GetsOf(c) == SelectSeq(d.gets, LAMBDA g : g[1] = c)
FetchedOf(c) == {f \in d.fetched : f[1] = c}

C19_FetchPolicy ==
    d.manifest # <<>> =>
    /\ \A c \in 0..(NumChunks(file) - 1) :
           /\ Len(GetsOf(c)) <= Len(ChunkShards(d.manifest, c))
           /\ \A k \in 1..Len(GetsOf(c)) :
                  GetsOf(c)[k][2] = ChunkShards(d.manifest, c)[k].shard_index
           /\ Cardinality(FetchedOf(c)) <= DATA_SHARDS
           /\ Cardinality(FetchedOf(c)) = DATA_SHARDS
                  => GetsOf(c)[Len(GetsOf(c))] \in d.fetched
    /\ d.result = "err_not_enough_shards" =>
           /\ Cardinality(FetchedOf(d.chunk_idx)) < DATA_SHARDS
           /\ Len(GetsOf(d.chunk_idx)) = Len(ChunkShards(d.manifest, d.chunk_idx))
           /\ \A c \in (d.chunk_idx + 1)..(NumChunks(file) - 1) : GetsOf(c) = <<>>
           /\ d.file_data = SubSeq(file, 1, d.chunk_idx * CHUNK)
           /\ output = None

\* a chunk whose first GET failed: seven GETs went out, six succeeded, none after
C19_Witness ==
    /\ DownloadReturned
    /\ Len(GetsOf(0)) = DATA_SHARDS + 1
    /\ Cardinality(FetchedOf(0)) = DATA_SHARDS
    /\ <<0, 0>> \notin d.fetched

(***************************************************************************)
(* C20: the peer classifies a connection from its first 4 bytes alone:     *)
(* PING when they are "PING", GET when the first three are "GET", STORE    *)
(* otherwise; the identifier a GET or PING is looked up by is exactly the  *)
(* bytes between the ':' separator and the first newline.                  *)
(***************************************************************************)
RECURSIVE UpTo(_, _)
UpTo(bytes, stop) ==
    IF bytes = <<>> \/ Head(bytes) = stop THEN <<>>
    ELSE <<Head(bytes)>> \o UpTo(Tail(bytes), stop)

BetweenColonAndNewline(frame) ==
    UpTo(SubSeq(frame, Len(UpTo(frame, COLON)) + 2, Len(frame)), NEWLINE)

C20_FrameDispatch ==
    Len(conn.frame) >= 4 =>
        LET header == SubSeq(conn.frame, 1, 4)
        IN  /\ Dispatch(header) = "PING" <=> header = PING_
            /\ Dispatch(header) = "GET" <=> SubSeq(header, 1, 3) = GET_
            /\ conn.op \in {"GET", "PING"} => Dispatch(header) = conn.op
            /\ conn.op \in {"STORE", "STORE_CUT", "STORE_PART"} => Dispatch(header) = "STORE"
            /\ Dispatch(header) \in {"GET", "PING"}
                   => shard_path(conn.frame) = BetweenColonAndNewline(conn.frame)

(***************************************************************************)
(* C21: in every manifest that upload persisted, each ShardLocation has    *)
(* chunk_index below chunk_count and shard_index below TOTAL_SHARDS, names *)
(* the device at position shard_index mod the number of devices, and the   *)
(* shard_map is strictly ascending by (chunk_index, shard_index), so no    *)
(* pair occurs twice.                                                      *)
(***************************************************************************)
LocBefore(a, b) ==
    \/ a.chunk_index < b.chunk_index
    \/ a.chunk_index = b.chunk_index /\ a.shard_index < b.shard_index

C21_Placement ==
    \A f \in DOMAIN db :
        LET m == db[f].sealed
            sm == m.shard_map
        IN  /\ \A i \in 1..Len(sm) :
                   /\ sm[i].chunk_index \in 0..(m.chunk_count - 1)
                   /\ sm[i].shard_index \in 0..(TOTAL_SHARDS - 1)
                   /\ sm[i].device_id = devices[(sm[i].shard_index % Len(devices)) + 1]
                   /\ sm[i].device_address = sm[i].device_id
            /\ \A i \in 1..Len(sm) : \A j \in (i + 1)..Len(sm) : LocBefore(sm[i], sm[j])

\* a persisted manifest of two chunks on two devices with some STORE failed
C21_Witness ==
    /\ Persisted
    /\ Len(devices) = 2
    /\ db[u.file_id].sealed.chunk_count = 2
    /\ Len(db[u.file_id].sealed.shard_map) < 2 * TOTAL_SHARDS
    /\ \E i \in 1..Len(db[u.file_id].sealed.shard_map) :
           db[u.file_id].sealed.shard_map[i].device_id = 2

(***************************************************************************)
(* C22: every manifest that upload persisted has chunk_count equal to the  *)
(* file size divided by CHUNK rounded up, one ChunkInfo per chunk with     *)
(* chunk_index 0, 1, ... in order, encrypted_size equal to the length of   *)
(* the chunk's ciphertext before padding, every ShardLocation carrying the *)
(* nonce of its chunk's ChunkInfo, and, when every STORE succeeded,        *)
(* chunk_count times TOTAL_SHARDS entries in the shard_map.                *)
(***************************************************************************)
Ciphertext(m, c) ==
    encrypt_chunk(Lz4Compress(FileChunk(file, c)), m.encryption_key,
                  m.chunks[c + 1].nonce.seed).encrypted

C22_ManifestStructure ==
    \A f \in DOMAIN db :
        LET m == db[f].sealed
        IN  /\ m.file_size = Len(file)
            /\ m.chunk_count * CHUNK >= m.file_size
            /\ (m.chunk_count - 1) * CHUNK < m.file_size
            /\ Len(m.chunks) = m.chunk_count
            /\ \A c \in 0..(m.chunk_count - 1) :
                   /\ m.chunks[c + 1].chunk_index = c
                   /\ m.chunks[c + 1].encrypted_size = Len(Ciphertext(m, c))
            /\ \A i \in 1..Len(m.shard_map) :
                   m.shard_map[i].nonce = m.chunks[m.shard_map[i].chunk_index + 1].nonce
            /\ (\A p \in Peers : up[p])
                   => Len(m.shard_map) = m.chunk_count * TOTAL_SHARDS

\* a persisted manifest of a file whose last chunk is short, every STORE answered
C22_Witness ==
    /\ Persisted
    /\ \A p \in Peers : up[p]
    /\ Len(file) = CHUNK + 1
    /\ Len(db[u.file_id].sealed.shard_map) = 2 * TOTAL_SHARDS
    /\ db[u.file_id].sealed.chunks[1].nonce # db[u.file_id].sealed.chunks[2].nonce

(***************************************************************************)
(* C23: within one upload at most one STORE is in flight; the STOREs are   *)
(* issued in (chunk, shard) order, each only after the one before it came  *)
(* back; the manifest is written to the local store only after the last    *)
(* STORE attempt came back, and reaches the coordinator only after that.   *)
(***************************************************************************)
InFlight == {u.issued[k] : k \in 1..Len(u.issued)} \ {u.returned[k] : k \in 1..Len(u.returned)}

C23_UploadOrdering ==
    /\ Cardinality(InFlight) <= 1
    /\ \A k \in 1..Len(u.issued) :
           u.issued[k] = <<(k - 1) \div TOTAL_SHARDS, (k - 1) % TOTAL_SHARDS>>
    /\ Len(u.returned) \in {Len(u.issued) - 1, Len(u.issued)}
    /\ \A k \in 1..Len(u.returned) : u.returned[k] = u.issued[k]
    /\ u.file_id \in DOMAIN db =>
           /\ Len(u.returned) = NumChunks(file) * TOTAL_SHARDS
           /\ InFlight = {}
    /\ u.file_id \in DOMAIN coord => u.file_id \in DOMAIN db

\* the manifest of a two-chunk file is in the local store, not yet at the coordinator
C23_Witness ==
    /\ pc = "up_sync"
    /\ NumChunks(file) = 2
    /\ u.file_id \in DOMAIN db
    /\ u.file_id \notin DOMAIN coord
    /\ Len(u.issued) = 2 * TOTAL_SHARDS

(***************************************************************************)
(* C24: under any interleaving of concurrent STORE handlers on one peer,   *)
(* the identifier a handler draws is in use neither in the shard directory *)
(* nor by another handler, an answered STORE has added its own shard file  *)
(* and sidecar with its own bytes, nothing else is in the directory, and   *)
(* the files of every answered STORE stay as they were written.            *)
(***************************************************************************)
C24_NoWriteWriteRaces ==
    /\ \A i \in 1..Len(tasks) : \A j \in 1..Len(tasks) :
           (i # j /\ tasks[i].step # "parsed" /\ tasks[j].step # "parsed")
               => tasks[i].shard_id # tasks[j].shard_id
    /\ \A i \in 1..Len(tasks) :
           tasks[i].step = "minted" =>
               /\ tasks[i].shard_id \notin DOMAIN store[Listener]
               /\ tasks[i].shard_id \o DOT_META \notin DOMAIN store[Listener]
    /\ \A i \in 1..Len(tasks) :
           tasks[i].step \in {"shard_written", "done"} =>
               /\ FsRead(store[Listener], tasks[i].shard_id)
                      = [ok |-> TRUE, data |-> tasks[i].shard_data]
               /\ FsRead(store[Listener], tasks[i].shard_id \o DOT_META)
                      = [ok |-> TRUE, data |-> GoodMeta]
    /\ DOMAIN store[Listener] \subseteq DrawnNames

\* two handlers interleaved: the later connection drew its identifier first
C24_Witness ==
    /\ Len(tasks) = 2
    /\ tasks[1].step = "done"
    /\ tasks[2].step = "done"
    /\ tasks[2].shard_id = Uuid(0)
    /\ tasks[1].shard_id = Uuid(1)

(***************************************************************************)
(* C25: in every state of the shard directory that another connection can  *)
(* observe, and in every state a failed STORE handler leaves behind, the   *)
(* shard file of an identifier exists exactly when its sidecar exists.     *)
(***************************************************************************)
C25_StoreAtomicity ==
    \A i \in 1..Len(tasks) :
        tasks[i].step # "parsed" =>
            (tasks[i].shard_id \in DOMAIN store[Listener]
                <=> tasks[i].shard_id \o DOT_META \in DOMAIN store[Listener])

(***************************************************************************)
(* C26: handling a GET or a PING changes nothing in the peer's shard       *)
(* directory; a verify run writes only PING frames to peers, has no STORE  *)
(* handled, and leaves the local manifest store as it was.                 *)
(***************************************************************************)
LookupServed == nconn' = nconn + 1 /\ conn'.op \in {"GET", "PING"}
VerifyStepped == v' # v

C26_ReadOnly ==
    [][(LookupServed \/ VerifyStepped) =>
           /\ store' = store
           /\ db' = db
           /\ rng' = rng
           /\ \A frame \in v'.sent : Dispatch(SubSeq(frame, 1, 4)) = "PING"]_vars

\* verify probed every shard with one lost, then a GET was answered with shard bytes
C26_Witness ==
    /\ v.status # "none"
    /\ tlog # {}
    /\ Cardinality(v.sent) = Len(v.manifest.shard_map)
    /\ conn.op = "GET"
    /\ conn.responded
    /\ conn.id \in DOMAIN store[conn.peer]
    /\ conn.resp = store[conn.peer][conn.id]

(***************************************************************************)
(* C27: once get_manifest succeeds for a file id on a node, no step of an  *)
(* upload, a download, a listing or a verify run on that node changes the  *)
(* manifest that get_manifest returns for that file id.                    *)
(***************************************************************************)
C27_ManifestImmutable ==
    [][faults' = faults =>
           \A f \in DOMAIN db :
               get_manifest(db, f).ok => get_manifest(db', f) = get_manifest(db, f)]_vars

\* a second upload and a download have run while the coordinator's copy of the
\* first file's manifest differs from the local one
C27_Witness ==
    /\ Cardinality(DOMAIN db) = 2
    /\ d.result = "ok"
    /\ \E f \in DOMAIN db :
           /\ f # u.file_id
           /\ get_manifest(db, f).ok
           /\ coord[f] # get_manifest(db, f).manifest

(***************************************************************************)
(* C28: for every ciphertext length L >= 1 the DATA_SHARDS data shards and *)
(* the PARITY_SHARDS parity shards all have length L / DATA_SHARDS rounded *)
(* up, also when L < DATA_SHARDS or several trailing slices lie beyond the *)
(* ciphertext; the data shards concatenated in index order and truncated   *)
(* to L are the ciphertext; when DATA_SHARDS divides L the data shards     *)
(* hold no padding byte.                                                   *)
(***************************************************************************)
C28_SplitJoin ==
    pc \in {"join", "done"} =>
        LET L == Len(file)
            shard_size == Len(u.shards[1])
        IN  /\ Len(u.shards) = DATA_SHARDS + PARITY_SHARDS
            /\ shard_size * DATA_SHARDS >= L
            /\ (shard_size - 1) * DATA_SHARDS < L
            /\ \A s \in 1..Len(u.shards) : Len(u.shards[s]) = shard_size
            /\ L % DATA_SHARDS = 0 => shard_size * DATA_SHARDS = L
            /\ pc = "done" => d.result = "ok" /\ d.file_data = file

\* a ciphertext of DATA_SHARDS + 1 bytes: two slices lie wholly beyond it
C28_Witness ==
    /\ pc = "done"
    /\ Len(file) = DATA_SHARDS + 1
    /\ u.shards[DATA_SHARDS] = <<0, 0>>
    /\ u.shards[DATA_SHARDS - 1] = <<0, 0>>
    /\ d.file_data = file

(***************************************************************************)
(* C29: the output path is written at most once, and only after every      *)
(* chunk of the manifest was fetched, reconstructed, decrypted and         *)
(* decompressed; whenever download returns an error the output path was    *)
(* neither created nor modified.                                           *)
(***************************************************************************)
C29_FailureLeavesNoOutput ==
    [][/\ output' # output =>
              /\ output = None
              /\ d.result = "none"
              /\ d.chunk_idx = d.manifest.chunk_count
              /\ Len(d.gets) >= DATA_SHARDS * d.manifest.chunk_count
              /\ d'.result = "ok"
       /\ d'.result \notin {"none", "ok"} => output' = None]_vars

\* the second chunk of a file failed to decrypt after the first was decoded
C29_Witness ==
    /\ d.result = "err_decrypt"
    /\ d.chunk_idx = 1
    /\ d.file_data # <<>>
    /\ output = None

(***************************************************************************)
(* C30: for every payload X that a peer answered a STORE of with id, of    *)
(* any length and content, fetch_shard for id succeeds with exactly X; it  *)
(* reports the shard as not found only when the peer does not hold it.     *)
(***************************************************************************)
C30_FetchDisambiguation ==
    \A p \in Peers : \A id \in DOMAIN acked[p] :
        LET r == fetch_shard(up[p], store[p], id)
        IN  /\ r.ok /\ r.data = acked[p][id]
            /\ ~r.ok => id \notin DOMAIN store[p]

====
